---- MODULE Spec2Model ----
\* Tunnel broker core: ClientManager (registry), Client (grace timer, close)
\* and TunnelAgent (socket pool, wait queue, listener), as one state machine.
\* Every JavaScript callback (API call, timer, I/O event) is one atomic action.
EXTENDS Integers, Sequences, FiniteSets, TLC

\* ---------------------------------------------------------------- bounds
MaxClients == 2         \* Client objects the manager may construct
MaxIds == 2             \* identifier space: requested ids and hri.random() results
MaxSockets == 3         \* tunnel sockets the remote user dials per agent
MaxCalls == 2           \* createConnection calls per agent
MaxCloseCalls == 1      \* direct Client.close() calls are made while fewer close events
MgrSockets == 1         \* sockets per agent in the many-clients specification
max_tcp_sockets == 2    \* ClientManagerOptions.max_tcp_sockets

Objs == 1..MaxClients
Ids == 1..MaxIds
Socks == 1..MaxSockets
Cbs == 1..MaxCalls

VARIABLES
    clients,            \* ClientManager.clients: id -> Client object
    tunnels,            \* ClientManager.stats.tunnels
    nextObj,            \* number of the next Client/TunnelAgent pair to construct
    resuming,           \* the promise of agent.listen() is resolved and the rest of
                        \* newClient (after its await) has not run yet
    clientId,           \* Client.id
    graceTimeout,       \* whether the timer Client.graceTimeout refers to is pending
    timers,             \* number of pending grace timers of the Client
    closeEvents,        \* number of 'close' events the Client has emitted
    closeListener,      \* the manager's client.once('close') listener is attached
    errorListener,      \* the client's agent.once('error') listener is attached
    onlineView,         \* history: what the client's 'online' handler found in the
                        \* agent the last time it ran (see viewAtOnline)
    server,             \* TunnelAgent.server: "new", "binding", "listening", "failed",
                        \* "closed"
    listenError,        \* the 'error' event of a failed server.listen() is queued
    pendingClose,       \* number of queued 'close' events of TunnelAgent.server
    closed,             \* TunnelAgent.closed
    connectedSockets,   \* TunnelAgent.connectedSockets
    availableSockets,   \* TunnelAgent.availableSockets
    waitingCreateConn,  \* TunnelAgent.waitingCreateConn: callbacks [cb, kind], cb the call
                        \* number, kind its caller: "request" (http.Agent) or "upgrade"
    deliveries,         \* pending setTimeout(0) callbacks <<fn, socket>>, in timer order
    socket,             \* per socket: "fresh", "open", "destroyed", "closed", "rejected"
    admitted,           \* sockets that passed the cap check (have the close handler)
    agentSockets,       \* sockets http.Agent tracks (handed to its request callbacks)
    nextSocket,         \* number of the next socket to arrive
    cbResult,           \* per call: [st, sock], st "unused", "pending", "closed" (the
                        \* error) or "socket" with sock the socket received
    nextCb,             \* number of the next createConnection call
    queuedLog,          \* history: callbacks in the order they were queued
    handedLog,          \* history: sockets in the order accepts gave them to waiters
    removed,            \* history: ids removeClient was called with since the last newClient
    last                \* history: the last handler that ran and what it emitted

mgrVars == <<clients, tunnels, nextObj, resuming, removed>>
clientVars == <<clientId, graceTimeout, timers, closeEvents, closeListener, errorListener,
                onlineView>>
agentVars == <<server, closed, connectedSockets, availableSockets, waitingCreateConn,
               deliveries>>
sockVars == <<socket, admitted, agentSockets, nextSocket>>
cbVars == <<cbResult, nextCb, queuedLog, handedLog>>
tickVars == <<listenError, pendingClose>>
vars == <<mgrVars, clientVars, agentVars, tickVars, sockVars, cbVars, last>>

\* ---------------------------------------------------------------- helpers
Remove(f, k) == [x \in DOMAIN f \ {k} |-> f[x]]

Put(f, k, v) == [x \in DOMAIN f \cup {k} |-> IF x = k THEN v ELSE f[x]]

Without(seq, e) == SelectSeq(seq, LAMBDA x: x # e)

\* results of a createConnection callback
Unused == [st |-> "unused", sock |-> 0]

Pending == [st |-> "pending", sock |-> 0]

ErrClosed == [st |-> "closed", sock |-> 0]

Got(s) == [st |-> "socket", sock |-> s]

Step(op, o, arg, emits) == [op |-> op, obj |-> o, arg |-> arg, emits |-> emits]

\* server._connections: accepted sockets the runtime has not destroyed yet
OpenSockets(o) == {s \in Socks: socket[o][s] = "open"}

\* A server 'close' event of agent o is queued. The runtime queues one with
\* process.nextTick at every server.close() call that finds the server without
\* connection, and when the last connection of a closed server is destroyed.
CloseDue(o) == pendingClose[o] > 0

\* The process.nextTick queue, which holds the pending 'listening', listen
\* 'error' and server 'close' events, has drained.
TickQueueDrained ==
    \A o \in Objs: server[o] # "binding" /\ ~listenError[o] /\ ~CloseDue(o)

\* I/O events and timers run only after the process.nextTick queue and then
\* the promise continuations (the suspended newClient calls) have run.
TickDrained == TickQueueDrained /\ \A o \in Objs: ~resuming[o]

Init ==
    /\ clients = <<>>
    /\ tunnels = 0
    /\ nextObj = 1
    /\ resuming = [o \in Objs |-> FALSE]
    /\ removed = {}
    /\ clientId = [o \in Objs |-> 0]
    /\ graceTimeout = [o \in Objs |-> FALSE]
    /\ timers = [o \in Objs |-> 0]
    /\ closeEvents = [o \in Objs |-> 0]
    /\ closeListener = [o \in Objs |-> FALSE]
    /\ errorListener = [o \in Objs |-> FALSE]
    /\ onlineView = [o \in Objs |-> [count |-> 0, pooled |-> FALSE, promised |-> FALSE]]
    /\ server = [o \in Objs |-> "new"]
    /\ listenError = [o \in Objs |-> FALSE]
    /\ pendingClose = [o \in Objs |-> 0]
    /\ closed = [o \in Objs |-> FALSE]
    /\ connectedSockets = [o \in Objs |-> 0]
    /\ availableSockets = [o \in Objs |-> <<>>]
    /\ waitingCreateConn = [o \in Objs |-> <<>>]
    /\ deliveries = [o \in Objs |-> <<>>]
    /\ socket = [o \in Objs |-> [s \in Socks |-> "fresh"]]
    /\ admitted = [o \in Objs |-> {}]
    /\ agentSockets = [o \in Objs |-> {}]
    /\ nextSocket = [o \in Objs |-> 1]
    /\ cbResult = [o \in Objs |-> [k \in Cbs |-> Unused]]
    /\ nextCb = [o \in Objs |-> 1]
    /\ queuedLog = [o \in Objs |-> <<>>]
    /\ handedLog = [o \in Objs |-> <<>>]
    /\ last = Step("init", 0, 0, {})

\* ---------------------------------------------------------------- Client
\* clearTimeout(this.graceTimeout) on the objects in cs, from timer state gl, tm
clearedLive(cs, gl) == [x \in Objs |-> IF x \in cs THEN FALSE ELSE gl[x]]

clearedCount(cs, gl, tm) == [x \in Objs |-> IF x \in cs /\ gl[x] THEN tm[x] - 1 ELSE tm[x]]

\* this.graceTimeout = setTimeout(() => this.close(), 1000) on object o
armedLive(o, gl) == [gl EXCEPT ![o] = TRUE]

armedCount(o, tm) == [tm EXCEPT ![o] = @ + 1]

\* stats.tunnels after removeClient found (or did not find) the client
tunnelsAfterRemoveAlways(present, tn) == tn - 1

tunnelsAfterRemove(present, tn) == IF present THEN tn - 1 ELSE tn

\* Client.close() on object o, entered with registry cl, stats.tunnels tn,
\* timer state gl, tm and removeClient history rm. emit('close') runs the manager's once-listener, if still
\* attached: removeClient(id), which closes whatever client is registered under
\* that id (the same object again, or the one that overwrote it).
close(o, cl, tn, gl, tm, rm) ==
    LET nested == closeListener[o] /\ clientId[o] \in DOMAIN cl
        o2 == IF nested THEN cl[clientId[o]] ELSE o
        cs == {o, o2}
        \* how often close() runs on object x
        calls(x) == (IF x = o THEN 1 ELSE 0) + (IF nested /\ x = o2 THEN 1 ELSE 0)
    IN  /\ clients' = IF nested THEN Remove(cl, clientId[o]) ELSE cl
        /\ tunnels' = IF closeListener[o] THEN tunnelsAfterRemove(nested, tn) ELSE tn
        /\ removed' = IF closeListener[o] THEN rm \cup {clientId[o]} ELSE rm
        /\ closeListener' = [x \in Objs |-> closeListener[x] /\ x \notin cs]
        /\ closeEvents' = [x \in Objs |-> closeEvents[x] + calls(x)]
        /\ graceTimeout' = clearedLive(cs, gl)
        /\ timers' = clearedCount(cs, gl, tm)
        \* agent.destroy(): server.close(), then http.Agent.destroy() destroys
        \* the sockets the http.Agent tracks
        /\ server' = [x \in Objs |-> IF x \in cs THEN "closed" ELSE server[x]]
        /\ socket' = [x \in Objs |-> [s \in Socks |->
                         IF x \in cs /\ s \in agentSockets[x] /\ socket[x][s] = "open"
                         THEN "destroyed" ELSE socket[x][s]]]
        \* the runtime queues a server 'close' event at each server.close()
        \* call that finds no connection, and one when the http.Agent destroys
        \* the last connection: one per call unless an untracked socket is open
        /\ pendingClose' = [x \in Objs |-> pendingClose[x]
                               + (IF OpenSockets(x) \ agentSockets[x] = {}
                                  THEN calls(x) ELSE 0)]

\* what close() leaves alone
closeFrame ==
    UNCHANGED <<nextObj, resuming, clientId, onlineView, listenError, closed, connectedSockets, availableSockets,
                waitingCreateConn, deliveries, admitted, agentSockets, nextSocket, cbVars>>

\* a direct call of the public method Client.close()
ClientClose(o) ==
    /\ o < nextObj
    /\ closeEvents[o] < MaxCloseCalls
    /\ close(o, clients, tunnels, graceTimeout, timers, removed)
    /\ UNCHANGED errorListener
    /\ closeFrame
    /\ last' = Step("close", o, 0, {"close"})

\* the grace timer fires: the timer graceTimeout refers to, or an older one
GraceTimerFires(o) ==
    /\ TickDrained
    /\ timers[o] > 0
    /\ \E ref \in BOOLEAN:
        /\ ref => graceTimeout[o]
        /\ ~ref => timers[o] > (IF graceTimeout[o] THEN 1 ELSE 0)
        /\ close(o, clients, tunnels,
                 IF ref THEN [graceTimeout EXCEPT ![o] = FALSE] ELSE graceTimeout,
                 [timers EXCEPT ![o] = @ - 1], removed)
    /\ UNCHANGED errorListener
    /\ closeFrame
    /\ last' = Step("graceTimer", o, 0, {"close"})

\* an 'error' event on the agent: agent.once('error', () => this.close())
AgentError(o) ==
    /\ TickDrained
    /\ errorListener[o]
    /\ errorListener' = [errorListener EXCEPT ![o] = FALSE]
    /\ close(o, clients, tunnels, graceTimeout, timers, removed)
    /\ closeFrame
    /\ last' = Step("agentError", o, 0, {"close"})

\* ---------------------------------------------------------------- ClientManager
\* hri.random(): some identifier of the generator's space
hriRandom == Ids

\* newClient(id) up to its await: pick the id, construct agent and client,
\* register, subscribe to 'close', and call agent.listen(). server.listen()
\* either binds and queues 'listening', or fails (the OS refuses the
\* listener) and queues 'error'.
newClient(id) ==
    /\ nextObj \in Objs
    /\ \E chosen \in (IF id \in DOMAIN clients THEN hriRandom ELSE {id}):
       \E fails \in BOOLEAN:
        LET o == nextObj IN
        /\ clientId' = [clientId EXCEPT ![o] = chosen]
        /\ graceTimeout' = armedLive(o, graceTimeout)
        /\ timers' = armedCount(o, timers)
        /\ errorListener' = [errorListener EXCEPT ![o] = TRUE]
        /\ clients' = Put(clients, chosen, o)
        /\ closeListener' = [closeListener EXCEPT ![o] = TRUE]
        /\ server' = [server EXCEPT ![o] = IF fails THEN "failed" ELSE "binding"]
        /\ listenError' = [listenError EXCEPT ![o] = fails]
        /\ nextObj' = o + 1
        /\ removed' = {}
        /\ last' = Step("newClient", o, id, {})
    /\ UNCHANGED <<tunnels, resuming, closeEvents, onlineView, pendingClose, closed,
                   connectedSockets, availableSockets, waitingCreateConn, deliveries,
                   sockVars, cbVars>>

\* the 'listening' callback of server.listen(), run from process.nextTick,
\* resolves the promise of agent.listen(). A server closed while binding never
\* emits 'listening'.
listenResolved(o) ==
    /\ server[o] = "binding"
    /\ server' = [server EXCEPT ![o] = "listening"]
    /\ resuming' = [resuming EXCEPT ![o] = TRUE]
    /\ last' = Step("listening", o, clientId[o], {})
    /\ UNCHANGED <<clients, tunnels, nextObj, removed, clientVars, tickVars, closed,
                   connectedSockets, availableSockets, waitingCreateConn, deliveries,
                   sockVars, cbVars>>

\* newClient resumes after its await: this.stats.tunnels++ and return. The
\* continuation is a promise job: it runs before any I/O event or timer, and
\* before or after queued process.nextTick events, depending on whether the
\* calls that queued them were made from promise jobs ahead of it.
newClientResumed(o) ==
    /\ resuming[o]
    /\ resuming' = [resuming EXCEPT ![o] = FALSE]
    /\ tunnels' = tunnels + 1
    /\ last' = Step("resumed", o, clientId[o], {})
    /\ UNCHANGED <<clients, nextObj, removed, clientVars, agentVars, tickVars, sockVars,
                   cbVars>>

\* the queued 'error' event of a failed server.listen(), emitted whether or
\* not the server has been closed since: the handler installed by listen()
\* logs it, the promise of listen() is never settled and newClient never
\* resumes
listenFailed(o) ==
    /\ listenError[o]
    /\ listenError' = [listenError EXCEPT ![o] = FALSE]
    /\ last' = Step("listenError", o, clientId[o], {})
    /\ UNCHANGED <<mgrVars, clientVars, agentVars, pendingClose, sockVars, cbVars>>

\* removeClient(id) called on the manager
removeClient(id) ==
    /\ IF id \in DOMAIN clients
       THEN close(clients[id], Remove(clients, id), tunnelsAfterRemove(TRUE, tunnels),
                  graceTimeout, timers, removed \cup {id})
       ELSE /\ tunnels' = tunnelsAfterRemove(FALSE, tunnels)
            /\ removed' = removed \cup {id}
            /\ UNCHANGED <<clients, graceTimeout, timers, closeEvents, closeListener,
                           server, socket, pendingClose>>
    /\ UNCHANGED errorListener
    /\ closeFrame
    /\ last' = Step("removeClient", IF id \in DOMAIN clients THEN clients[id] ELSE 0, id,
                    IF id \in DOMAIN clients THEN {"close"} ELSE {})

\* ---------------------------------------------------------------- TunnelAgent
maxTcpSockets == max_tcp_sockets

\* the cap check of _onConnection
atCapacityOffByOne(o) == connectedSockets[o] > maxTcpSockets

atCapacity(o) == connectedSockets[o] >= maxTcpSockets

\* this.waitingCreateConn.shift(): the callback taken, and the queue left
shiftedWaiterLast(q) == q[Len(q)]

shiftedWaiter(q) == Head(q)

waitersAfterShift(q) == Tail(q)

\* this.availableSockets.shift() in createConnection: the pool left
availableAfterShiftKept(q) == q

availableAfterShift(q) == Tail(q)

\* the http.Agent records a socket its own request callback receives
tracked(o, kind, s) == IF kind = "request" THEN agentSockets[o] \cup {s}
                       ELSE agentSockets[o]

\* if (fn), fn the result of this.waitingCreateConn.shift()
waiterPresentNever(o) == FALSE

waiterPresent(o) == waitingCreateConn[o] # <<>>

\* what the callbacks of agent o have received when _onConnection returns:
\* fn(null, socket) is wrapped in setTimeout(..., 0), so nothing new
resultsAtAcceptSync(o, fn, s) == [cbResult[o] EXCEPT ![fn.cb] = Got(s)]

resultsAtAccept(o, fn, s) == cbResult[o]

\* What the agent of o holds while emit('online') runs its listeners, s the
\* socket being accepted: the emit comes before connectedSockets += 1, before
\* the setTimeout for a waiter and before availableSockets.push(socket).
viewAtOnlineAfterHandout(o, s) ==
    [count |-> connectedSockets[o] + 1,
     pooled |-> ~waiterPresent(o),
     promised |-> waiterPresent(o)]

viewAtOnline(o, s) ==
    [count |-> connectedSockets[o],
     pooled |-> \E i \in 1..Len(availableSockets[o]): availableSockets[o][i] = s,
     promised |-> \E i \in 1..Len(deliveries[o]): deliveries[o][i][2] = s]

\* cb(null, conn) where cb is the callback of Client.handleUpgrade: it calls
\* conn.destroy() at once when the external socket is no longer readable and
\* writable (dead). A socket already destroyed stays as it is; the last
\* connection of a closed server queues the server's 'close' event.
receivedBy(o, kind, s, dead) ==
    /\ socket' = IF dead THEN [socket EXCEPT ![o][s] = "destroyed"] ELSE socket
    /\ pendingClose' = IF dead /\ server[o] = "closed" /\ OpenSockets(o) = {s}
                       THEN [pendingClose EXCEPT ![o] = @ + 1] ELSE pendingClose

\* whether the callback may find its external socket dead
deadChoices(o, kind, s) ==
    IF kind = "upgrade" /\ socket[o][s] = "open" THEN BOOLEAN ELSE {FALSE}

\* the clients whose grace timer the 'online' handler of client o clears
onlineClearsNothing(o) == {}

onlineClears(o) == {o}

\* this.connectedSockets -= 1 in the socket close handler
countAfterCloseKept(n) == n

countAfterClose(n) == n - 1

\* server 'connection' event: _onConnection(socket)
onConnection(o) ==
    LET s == nextSocket[o] IN
    /\ TickDrained
    /\ server[o] = "listening"
    /\ s \in Socks
    /\ nextSocket' = [nextSocket EXCEPT ![o] = s + 1]
    /\ IF atCapacity(o)
       THEN /\ socket' = [socket EXCEPT ![o][s] = "rejected"]
            /\ last' = Step("connection", o, 0, {})
            /\ UNCHANGED <<admitted, connectedSockets, availableSockets,
                           waitingCreateConn, deliveries, handedLog, graceTimeout, timers,
                           cbResult, onlineView>>
       ELSE /\ socket' = [socket EXCEPT ![o][s] = "open"]
            /\ admitted' = [admitted EXCEPT ![o] = @ \cup {s}]
            \* emit('online') runs the client's handler: clearTimeout(graceTimeout)
            /\ IF connectedSockets[o] = 0
               THEN /\ graceTimeout' = clearedLive(onlineClears(o), graceTimeout)
                    /\ timers' = clearedCount(onlineClears(o), graceTimeout, timers)
                    /\ onlineView' = [onlineView EXCEPT ![o] = viewAtOnline(o, s)]
                    /\ last' = Step("connection", o, 0, {"online"})
               ELSE /\ UNCHANGED <<graceTimeout, timers, onlineView>>
                    /\ last' = Step("connection", o, 0, {})
            /\ connectedSockets' = [connectedSockets EXCEPT ![o] = @ + 1]
            /\ IF waiterPresent(o)
               THEN /\ deliveries' = [deliveries EXCEPT
                          ![o] = Append(@, <<shiftedWaiter(waitingCreateConn[o]), s>>)]
                    /\ cbResult' = [cbResult EXCEPT ![o] =
                          resultsAtAccept(o, shiftedWaiter(waitingCreateConn[o]), s)]
                    /\ waitingCreateConn' = [waitingCreateConn EXCEPT
                          ![o] = waitersAfterShift(@)]
                    /\ handedLog' = [handedLog EXCEPT ![o] = Append(@, s)]
                    /\ UNCHANGED availableSockets
               ELSE /\ availableSockets' = [availableSockets EXCEPT ![o] = Append(@, s)]
                    /\ UNCHANGED <<waitingCreateConn, deliveries, handedLog, cbResult>>
    /\ UNCHANGED <<mgrVars, clientId, closeEvents, closeListener, errorListener,
                   server, tickVars, closed, agentSockets, nextCb, queuedLog>>

\* the setTimeout(() => fn(null, socket), 0) of _onConnection fires
deliver(o) ==
    /\ TickDrained
    /\ deliveries[o] # <<>>
    /\ LET fn == Head(deliveries[o])[1]
           s == Head(deliveries[o])[2]
       IN  /\ cbResult' = [cbResult EXCEPT ![o][fn.cb] = Got(s)]
           /\ agentSockets' = [agentSockets EXCEPT ![o] = tracked(o, fn.kind, s)]
           /\ \E dead \in deadChoices(o, fn.kind, s): receivedBy(o, fn.kind, s, dead)
           /\ last' = Step("deliver", o, 0, {})
    /\ deliveries' = [deliveries EXCEPT ![o] = Tail(@)]
    /\ UNCHANGED <<mgrVars, clientVars, server, listenError, closed, connectedSockets,
                   availableSockets, waitingCreateConn, admitted, nextSocket,
                   nextCb, queuedLog, handedLog>>

\* the runtime destroys an accepted socket: the peer ended it, it errored
\* (socket.once('error') calls socket.destroy()), or a holder destroyed it,
\* from whatever callback. The socket leaves server._connections now; its
\* 'close' event follows.
socketDestroyed(o, s) ==
    /\ socket[o][s] = "open"
    /\ socket' = [socket EXCEPT ![o][s] = "destroyed"]
    \* the last connection of a closed server: its 'close' event is queued
    /\ pendingClose' = [pendingClose EXCEPT
          ![o] = IF server[o] = "closed" /\ OpenSockets(o) = {s} THEN @ + 1 ELSE @]
    /\ last' = Step("destroyed", o, 0, {})
    /\ UNCHANGED <<mgrVars, clientVars, agentVars, listenError, admitted, agentSockets,
                   nextSocket, cbVars>>

\* socket 'close' event: the once('close') handler of _onConnection
socketClose(o, s) ==
    /\ TickDrained
    /\ socket[o][s] = "destroyed"
    /\ socket' = [socket EXCEPT ![o][s] = "closed"]
    /\ connectedSockets' = [connectedSockets EXCEPT ![o] = countAfterClose(@)]
    /\ availableSockets' = [availableSockets EXCEPT ![o] = Without(@, s)]
    \* emit('offline') runs the client's handler: clearTimeout, then setTimeout
    /\ IF countAfterClose(connectedSockets[o]) <= 0
       THEN /\ graceTimeout' = armedLive(o, clearedLive({o}, graceTimeout))
            /\ timers' = armedCount(o, clearedCount({o}, graceTimeout, timers))
            /\ last' = Step("socketClose", o, 0, {"offline"})
       ELSE /\ UNCHANGED <<graceTimeout, timers>>
            /\ last' = Step("socketClose", o, 0, {})
    /\ UNCHANGED <<mgrVars, clientId, closeEvents, closeListener, errorListener,
                   onlineView, server, tickVars, closed, waitingCreateConn, deliveries,
                   admitted, agentSockets, nextSocket, cbVars>>

\* server 'close' event: _onClose(). The runtime emits it from process.nextTick,
\* ahead of I/O events and timers, once per event queued: again when
\* server.close() was called again, with closed already true.
onClose(o) ==
    /\ CloseDue(o)
    /\ pendingClose' = [pendingClose EXCEPT ![o] = @ - 1]
    /\ closed' = [closed EXCEPT ![o] = TRUE]
    /\ cbResult' = [cbResult EXCEPT ![o] = [k \in Cbs |->
                       IF \E i \in 1..Len(waitingCreateConn[o]): waitingCreateConn[o][i].cb = k
                       THEN ErrClosed ELSE @[k]]]
    /\ waitingCreateConn' = [waitingCreateConn EXCEPT ![o] = <<>>]
    /\ last' = Step("serverClose", o, 0, {"end"})
    /\ UNCHANGED <<mgrVars, clientVars, server, listenError, connectedSockets,
                   availableSockets, deliveries, sockVars, nextCb, queuedLog, handedLog>>

\* createConnection(options, cb), called by the http.Agent for a request
\* ("request") or by Client.handleUpgrade ("upgrade"). handleRequest and
\* handleUpgrade are public and synchronous: the call may come in any tick,
\* also while a server is binding or a server 'close' event is queued.
createConnection(o, kind) ==
    LET k == nextCb[o] IN
    /\ o < nextObj
    /\ k \in Cbs
    /\ nextCb' = [nextCb EXCEPT ![o] = k + 1]
    /\ last' = Step("createConnection", o, 0, {})
    /\ IF closed[o]
       THEN /\ cbResult' = [cbResult EXCEPT ![o][k] = ErrClosed]
            /\ UNCHANGED <<availableSockets, waitingCreateConn, agentSockets, queuedLog,
                           socket, pendingClose>>
       ELSE IF availableSockets[o] = <<>>
       THEN /\ waitingCreateConn' = [waitingCreateConn EXCEPT
                  ![o] = Append(@, [cb |-> k, kind |-> kind])]
            /\ queuedLog' = [queuedLog EXCEPT ![o] = Append(@, k)]
            /\ cbResult' = [cbResult EXCEPT ![o][k] = Pending]
            /\ UNCHANGED <<availableSockets, agentSockets, socket, pendingClose>>
       ELSE /\ cbResult' = [cbResult EXCEPT ![o][k] = Got(Head(availableSockets[o]))]
            /\ availableSockets' = [availableSockets EXCEPT ![o] = availableAfterShift(@)]
            /\ agentSockets' = [agentSockets EXCEPT
                  ![o] = tracked(o, kind, Head(availableSockets[o]))]
            /\ \E dead \in deadChoices(o, kind, Head(availableSockets[o])):
                  receivedBy(o, kind, Head(availableSockets[o]), dead)
            /\ UNCHANGED <<waitingCreateConn, queuedLog>>
    /\ UNCHANGED <<mgrVars, clientVars, server, listenError, closed, connectedSockets,
                   deliveries, admitted, nextSocket, handedLog>>

\* ---------------------------------------------------------------- specifications
\* One client and its agent in full: the pool, the wait queue and the listener.
Next ==
    \/ \E id \in {1}: nextObj = 1 /\ newClient(id)
    \/ \E o \in Objs: listenResolved(o)
    \/ \E o \in Objs: newClientResumed(o)
    \/ \E o \in Objs: listenFailed(o)
    \/ \E o \in Objs: o < nextObj /\ removeClient(clientId[o])
    \/ \E o \in Objs: GraceTimerFires(o)
    \/ \E o \in Objs: onConnection(o)
    \/ \E o \in Objs: deliver(o)
    \/ \E o \in Objs, s \in Socks: socketDestroyed(o, s)
    \/ \E o \in Objs, s \in Socks: socketClose(o, s)
    \/ \E o \in Objs: onClose(o)
    \/ \E o \in Objs, kind \in {"request", "upgrade"}: createConnection(o, kind)

Spec == Init /\ [][Next]_vars

\* What the runtime schedules by itself happens: a due event or setTimeout(0)
\* callback runs. What the remote user or a caller does (dialling, ending a
\* socket, calling the API) may never happen, and neither may the grace timer:
\* it is unref()ed, so the runtime does not stay alive for it.
Fairness ==
    \A o \in Objs:
        /\ WF_vars(listenResolved(o))
        /\ WF_vars(newClientResumed(o))
        /\ WF_vars(listenFailed(o))
        /\ WF_vars(deliver(o))
        /\ WF_vars(onClose(o))
        /\ \A s \in Socks: WF_vars(socketClose(o, s))

FairSpec == Init /\ [][Next]_vars /\ Fairness

\* The manager with several clients, every close trigger included; each agent
\* sees at most MgrSockets sockets and no createConnection call.
NextMgr ==
    \/ \E id \in Ids: newClient(id)
    \/ \E o \in Objs: listenResolved(o)
    \/ \E o \in Objs: newClientResumed(o)
    \/ \E o \in Objs: listenFailed(o)
    \/ \E id \in Ids: removeClient(id)
    \/ \E o \in Objs: ClientClose(o)
    \/ \E o \in Objs: GraceTimerFires(o)
    \/ \E o \in Objs: AgentError(o)
    \/ \E o \in Objs: nextSocket[o] <= MgrSockets /\ onConnection(o)
    \/ \E o \in Objs, s \in Socks: socketDestroyed(o, s)
    \/ \E o \in Objs, s \in Socks: socketClose(o, s)
    \/ \E o \in Objs: onClose(o)

SpecMgr == Init /\ [][NextMgr]_vars

\* ---------------------------------------------------------------- claims
IsSocket(r) == r.st = "socket"

\* admitted sockets whose close handler has not run yet
LiveAdmitted(o) == {s \in admitted[o]: socket[o][s] \in {"open", "destroyed"}}

InSeq(seq, e) == \E i \in 1..Len(seq): seq[i] = e

\* C1: connectedSockets stays within 0..maxTcpSockets, and a socket that
\* arrives at the cap is destroyed and never counted: it is not admitted, not
\* pooled, not promised to a waiter, and the count is exactly the admitted
\* sockets that have not closed.
C1_CapRespected ==
    \A o \in Objs:
        /\ 0 <= connectedSockets[o]
        /\ connectedSockets[o] <= maxTcpSockets
        /\ connectedSockets[o] = Cardinality(LiveAdmitted(o))
        /\ \A s \in Socks: socket[o][s] = "rejected" =>
              /\ s \notin admitted[o]
              /\ ~InSeq(availableSockets[o], s)
              /\ \A i \in 1..Len(deliveries[o]): deliveries[o][i][2] # s
              /\ \A k \in Cbs: cbResult[o][k] # Got(s)

\* a socket was turned away while the agent held maxTcpSockets sockets
C1_Witness ==
    \E o \in Objs:
        /\ connectedSockets[o] = maxTcpSockets
        /\ \E s \in Socks: socket[o][s] = "rejected"

\* C2: FIFO dispatch. The i-th callback queued receives the i-th socket an
\* accept gave to the queue, sockets reach queued callbacks in queue order,
\* and until destroy() queued callbacks complete in queue order.
C2_FifoDispatch ==
    \A o \in Objs:
        LET q == queuedLog[o]
            h == handedLog[o]
        IN  /\ Len(h) <= Len(q)
            /\ \A i \in 1..Len(q):
                  IsSocket(cbResult[o][q[i]]) => i <= Len(h) /\ cbResult[o][q[i]] = Got(h[i])
            /\ \A i \in 1..Len(q): \A j \in 1..Len(q):
                  i < j /\ IsSocket(cbResult[o][q[j]]) => IsSocket(cbResult[o][q[i]])
            /\ server[o] # "closed" =>
                  \A i \in 1..Len(q): \A j \in 1..Len(q):
                      i < j /\ cbResult[o][q[j]] # Pending => cbResult[o][q[i]] # Pending

\* two callbacks waited in the queue and each got its socket
C2_Witness ==
    \E o \in Objs:
        /\ Len(queuedLog[o]) >= 2
        /\ IsSocket(cbResult[o][queuedLog[o][1]])
        /\ IsSocket(cbResult[o][queuedLog[o][2]])

\* C3: a socket a callback received was admitted before and was given to no
\* other callback; a handed-out socket is neither pooled nor promised again,
\* and availableSockets holds no socket twice.
C3_NoDoubleHandout ==
    \A o \in Objs:
        /\ \A k \in Cbs: IsSocket(cbResult[o][k]) =>
              /\ cbResult[o][k].sock \in admitted[o]
              /\ ~InSeq(availableSockets[o], cbResult[o][k].sock)
              /\ \A i \in 1..Len(deliveries[o]): deliveries[o][i][2] # cbResult[o][k].sock
              /\ \A k2 \in Cbs: k2 # k => cbResult[o][k2] # cbResult[o][k]
        /\ \A i \in 1..Len(availableSockets[o]): \A j \in 1..Len(availableSockets[o]):
              i # j => availableSockets[o][i] # availableSockets[o][j]
        /\ \A i \in 1..Len(deliveries[o]):
              /\ deliveries[o][i][2] \in admitted[o]
              /\ ~InSeq(availableSockets[o], deliveries[o][i][2])
              /\ \A j \in 1..Len(deliveries[o]):
                    i # j => deliveries[o][i][2] # deliveries[o][j][2]

\* two callbacks hold sockets, one taken from the pool while another idled there
C3_Witness ==
    \E o \in Objs:
        /\ \E k \in Cbs: \E k2 \in Cbs:
              k # k2 /\ IsSocket(cbResult[o][k]) /\ IsSocket(cbResult[o][k2])
        /\ last.op = "createConnection"

\* C4 (as claimed): a createConnection call made after destroy() receives no
\* socket, whatever is idle in the pool.
C4_ClosedAfterDestroy ==
    [][\A o \in Objs:
          (last'.op = "createConnection" /\ last'.obj = o /\ server[o] = "closed")
          => ~IsSocket(cbResult'[o][nextCb[o]])]_vars

Queued(o, k) == \E i \in 1..Len(waitingCreateConn[o]): waitingCreateConn[o][i].cb = k

\* the last step ran Client.close(), and with it agent.destroy(), on object o
JustDestroyed(o) == last.obj = o /\ "close" \in last.emits /\ server[o] = "closed"

\* C5 (as claimed): a callback queued in waitingCreateConn when destroy() is
\* called is eventually completed with the error closed.
C5_WaitersFlushed ==
    \A o \in Objs: \A k \in Cbs:
        (JustDestroyed(o) /\ Queued(o, k)) ~> (cbResult[o][k] = ErrClosed)

\* what the agent of object o emitted in the last step
Emitted(o) == IF last.obj = o THEN last.emits ELSE {}

\* C6 (as claimed): online is emitted exactly on the 0-to-1 step of
\* connectedSockets, offline exactly on the 1-to-0 step taken while the agent
\* is not closed.
C6_OnlineOfflineEdges ==
    [][\A o \in Objs:
          /\ ("online" \in Emitted(o)')
                <=> (connectedSockets[o] = 0 /\ connectedSockets'[o] = 1)
          /\ ("offline" \in Emitted(o)')
                <=> (connectedSockets[o] = 1 /\ connectedSockets'[o] = 0 /\ ~closed[o])
      ]_vars

\* C7 (as claimed): a Client emits its close event at most once, whatever
\* closes it and however often.
C7_CloseOnce == \A o \in Objs: closeEvents[o] <= 1

\* C8: removeClient(id), called again with no newClient since the earlier
\* call, changes neither the registry nor stats.tunnels and closes no client.
C8_SecondRemoveNoOp ==
    [][\A id \in Ids:
          (last'.op = "removeClient" /\ last'.arg = id /\ id \in removed)
          => /\ clients' = clients
             /\ tunnels' = tunnels
             /\ closeEvents' = closeEvents
             /\ server' = server
             /\ socket' = socket
      ]_vars

\* a repeated removeClient has run on a client that was registered and is closed
C8_Witness ==
    /\ last.op = "removeClient"
    /\ last.obj = 0
    /\ last.arg \in removed
    /\ \E o \in Objs: clientId[o] = last.arg /\ closeEvents[o] > 0

\* C9 (as claimed): stats.tunnels equals the number of registered clients and
\* is never negative.
C9_TunnelsIsRegistrySize ==
    /\ tunnels = Cardinality(DOMAIN clients)
    /\ tunnels >= 0

\* C10 (as claimed): newClient called with a registered id registers the new
\* client under an id that was not registered, and every client registered
\* before stays registered.
C10_FreshIdOnCollision ==
    [][(last'.op = "newClient" /\ last'.arg \in DOMAIN clients)
          => /\ clientId'[last'.obj] \notin DOMAIN clients
             /\ \A id \in DOMAIN clients:
                   id \in DOMAIN clients' /\ clients'[id] = clients[id]
      ]_vars

\* C11 (as claimed): when the grace timer of a client has fired, the client is
\* closed, its id is out of the registry, and stats.tunnels is back at the
\* value it had before the client was created (0: the client is the only one
\* of this specification).
C11_GraceReapRestores ==
    \A o \in Objs:
        (last.op = "graceTimer" /\ last.obj = o)
        => /\ closeEvents[o] >= 1
           /\ clientId[o] \notin DOMAIN clients
           /\ tunnels = 0

\* C12 (as claimed): once the failure of agent.listen() has been handled, the
\* id is out of the registry and stats.tunnels has its value before newClient
\* was called (0: the only newClient call of this specification).
C12_ListenFailureRestores ==
    [][\A o \in Objs:
          (last'.op = "listenError" /\ last'.obj = o)
          => /\ clientId[o] \notin DOMAIN clients'
             /\ tunnels' = 0
      ]_vars

\* C13: at least one of availableSockets and waitingCreateConn is empty.
C13_PoolOrQueueEmpty ==
    \A o \in Objs: availableSockets[o] = <<>> \/ waitingCreateConn[o] = <<>>

\* a call was queued while sockets were connected, the pool having been
\* emptied by an earlier call
C13_Witness ==
    \E o \in Objs:
        /\ last.op = "createConnection"
        /\ waitingCreateConn[o] # <<>>
        /\ connectedSockets[o] > 0
        /\ \E k \in Cbs: IsSocket(cbResult[o][k])

\* C14 (as claimed): while closed is true, availableSockets and
\* waitingCreateConn are both empty, and no socket is admitted.
C14_ClosedMeansEmpty ==
    [][\A o \in Objs:
          closed'[o] => /\ availableSockets'[o] = <<>>
                        /\ waitingCreateConn'[o] = <<>>
                        /\ closed[o] => admitted'[o] = admitted[o]
      ]_vars

\* C15: connectedSockets is the number of admitted sockets whose close handler
\* has not run; a step changes it by the sockets it admits minus the sockets
\* whose close handler it runs, and a step that rejects a socket at the cap
\* leaves it alone, as does the later close of nothing but admitted sockets.
C15_CountTracksAdmitted ==
    [][\A o \in Objs:
          LET closing == {s \in Socks: socket[o][s] # "closed" /\ socket'[o][s] = "closed"}
              rejecting == {s \in Socks: socket[o][s] # "rejected" /\ socket'[o][s] = "rejected"}
          IN  /\ connectedSockets'[o] = Cardinality(LiveAdmitted(o)')
              /\ connectedSockets'[o] - connectedSockets[o]
                    = Cardinality(admitted'[o] \ admitted[o]) - Cardinality(closing)
              /\ Cardinality(admitted'[o] \ admitted[o]) <= 1
              /\ Cardinality(closing) <= 1
              /\ closing \subseteq admitted[o]
              /\ rejecting # {} => connectedSockets'[o] = connectedSockets[o]
      ]_vars

\* a socket was rejected at the cap and an admitted socket has closed since
C15_Witness ==
    \E o \in Objs:
        /\ \E s \in Socks: socket[o][s] = "rejected"
        /\ \E s \in admitted[o]: socket[o][s] = "closed"
        /\ last.op = "socketClose"

\* C16: the grace timer closes a client only while its agent counts no socket
\* and no admitted socket is unclosed; a client has at most one grace timer
\* pending, and none once online has been emitted and while a socket is counted.
C16_NoReapWhileOnline ==
    [][\A o \in Objs:
          /\ (last'.op = "graceTimer" /\ last'.obj = o)
                => connectedSockets[o] = 0 /\ LiveAdmitted(o) = {}
          /\ timers'[o] <= 1
          /\ "online" \in Emitted(o)' => timers'[o] = 0
          /\ connectedSockets'[o] > 0 => timers'[o] = 0
      ]_vars

\* the grace timer armed by an offline event closed a registered client that
\* had been online
C16_Witness ==
    \E o \in Objs:
        /\ last.op = "graceTimer"
        /\ last.obj = o
        /\ clientId[o] \in removed
        /\ tunnels = 0
        /\ admitted[o] # {}
        /\ \A s \in admitted[o]: socket[o][s] = "closed"

\* C17: the accept step completes no callback; a queued callback receives its
\* socket in a later timer step, the socket admitted (counted, online emitted)
\* before that step; the step that pools or promises a socket while
\* connectedSockets is 0 is the one that emits online; and while online is
\* being emitted the accepted socket is not yet counted, not yet in
\* availableSockets and not yet promised to a callback.
C17_DeliveryDeferred ==
    [][\A o \in Objs:
          /\ "online" \in Emitted(o)'
                => onlineView'[o] = [count |-> 0, pooled |-> FALSE, promised |-> FALSE]
          /\ (last'.op = "connection" /\ last'.obj = o) => cbResult'[o] = cbResult[o]
          /\ \A k \in Cbs:
                (InSeq(queuedLog[o], k) /\ ~IsSocket(cbResult[o][k])
                    /\ IsSocket(cbResult'[o][k]))
                => /\ last'.op = "deliver"
                   /\ cbResult'[o][k].sock \in admitted[o]
                   /\ \E i \in 1..Len(deliveries[o]):
                         deliveries[o][i][2] = cbResult'[o][k].sock
          /\ (connectedSockets[o] = 0
                /\ (Len(availableSockets'[o]) > Len(availableSockets[o])
                      \/ Len(deliveries'[o]) > Len(deliveries[o])))
                => "online" \in Emitted(o)' /\ connectedSockets'[o] = 1
      ]_vars

\* a queued callback has just received its socket from the timer step
C17_Witness ==
    \E o \in Objs:
        /\ last.op = "deliver"
        /\ last.obj = o
        /\ \E k \in Cbs: InSeq(queuedLog[o], k) /\ IsSocket(cbResult[o][k])

\* C18 (as claimed): no createConnection callback is completed with a socket
\* while closed is true.
C18_NoSocketAfterClosed ==
    [][\A o \in Objs: \A k \in Cbs:
          (closed[o] /\ ~IsSocket(cbResult[o][k])) => ~IsSocket(cbResult'[o][k])
      ]_vars

\* C19 (as claimed): the socket a createConnection callback receives has not
\* closed before the callback receives it.
C19_NoClosedSocketHandedOut ==
    [][\A o \in Objs: \A k \in Cbs:
          (~IsSocket(cbResult[o][k]) /\ IsSocket(cbResult'[o][k]))
          => socket[o][cbResult'[o][k].sock] # "closed"
      ]_vars

\* C20 (as claimed): once a client has emitted close, no step arms its grace
\* timer and no grace timer calls close() on it.
C20_NoRearmAfterClose ==
    [][\A o \in Objs:
          closeEvents[o] >= 1
          => /\ timers'[o] <= timers[o]
             /\ ~(last'.op = "graceTimer" /\ last'.obj = o)
      ]_vars

====
